---- MODULE Spec2Model ----
(***************************************************************************)
(* Model of backend/app.py: a Flask service keeping a process-wide list   *)
(* `tasks` and serving GET /tasks, POST /tasks and PUT /tasks/<task_id>.   *)
(*                                                                         *)
(* Spec     : requests are handled one at a time (each handler atomic).    *)
(* SpecConc : two create handlers run on separate threads of the           *)
(*            development server and interleave between statements.        *)
(*                                                                         *)
(* Requests carry a JSON document as body: either the JSON value null      *)
(* (get_json() returns None) or a JSON object.                             *)
(***************************************************************************)
EXTENDS Integers, Sequences, FiniteSets, TLC

(* ---------------------------------------------------------------- bounds *)
MaxTasks == 3

Procs == {1, 2}

(* ----------------------------------------------------------- JSON values *)
JBool(b) == [kind |-> "bool",   b |-> b,     s |-> "", n |-> 0]
JStr(s)  == [kind |-> "string", b |-> FALSE, s |-> s,  n |-> 0]
JNull    == [kind |-> "null",   b |-> FALSE, s |-> "", n |-> 0]

JTrue  == JBool(TRUE)
JFalse == JBool(FALSE)

(* the strings a caller supplies as task descriptions *)
Strings == {"a", "b"}

(* values a caller supplies under the key "completed": any JSON value *)
CompletedInputs == {JTrue, JFalse, JStr("yes")}

EmptyObj == [k \in {} |-> JNull]

(* what request.get_json() returns: None for the body null, else a dict *)
NoneData == [kind |-> "null", fields |-> EmptyObj]
Dict(f)  == [kind |-> "object", fields |-> f]

OnlyTask(s)      == Dict([k \in {"task"} |-> JStr(s)])
OnlyCompleted(v) == Dict([k \in {"completed"} |-> v])
Both(s, v) ==
  Dict([k \in {"task", "completed"} |-> IF k = "task" THEN JStr(s) ELSE v])

(* bodies sent to POST /tasks *)
PostDatas ==
  {NoneData, Dict(EmptyObj), OnlyCompleted(JTrue), Both("a", JTrue)}
    \cup { OnlyTask(s) : s \in Strings }

(* bodies sent to PUT /tasks/<task_id> *)
PutDatas ==
  {NoneData, Dict(EmptyObj), OnlyTask("b"), Both("b", JTrue)}
    \cup { OnlyCompleted(v) : v \in CompletedInputs }

(* path parameter <int:task_id>: a non-negative integer *)
TaskIds == 0 .. (MaxTasks + 1)

(* ------------------------------------------------------------- responses *)
NoTask == [id |-> 0, task |-> JNull, completed |-> JNull]

NoResp == [status |-> 0, kind |-> "none", list |-> << >>, task |-> NoTask, error |-> ""]

(* variant: the array is serialised newest first *)
ListRespNewestFirst(ts) ==
  [status |-> 200, kind |-> "list",
   list |-> [i \in 1 .. Len(ts) |-> ts[Len(ts) + 1 - i]],
   task |-> NoTask, error |-> ""]

(* jsonify(tasks) with the default status 200 *)
ListResp(ts) ==
  [status |-> 200, kind |-> "list", list |-> ts, task |-> NoTask, error |-> ""]

(* jsonify(task), status *)
TaskResp(t, st) ==
  [status |-> st, kind |-> "task", list |-> << >>, task |-> t, error |-> ""]

(* jsonify({'error': msg}), status *)
ErrorResp(msg, st) ==
  [status |-> st, kind |-> "error", list |-> << >>, task |-> NoTask, error |-> msg]

(* an exception leaving the view function: the framework answers 500 *)
FaultResp ==
  [status |-> 500, kind |-> "fault", list |-> << >>, task |-> NoTask, error |-> ""]

NoReq == [op |-> "none", id |-> 0, data |-> NoneData]
Req(op, id, data) == [op |-> op, id |-> id, data |-> data]

(* ----------------------------------------------------------------- state *)
VARIABLES
  tasks,      \* the module-level list `tasks`
  req,        \* the request handled by the last step
  resp,       \* the response produced by the last completed handler
  created,    \* history: the `task` values of the appended tasks, in order
  anyUpdate,  \* history: some update has assigned a completed field
  pc,         \* SpecConc: per thread, the statement of add_task it is at
  ldata,      \* SpecConc: per thread, the local `data`
  ltask       \* SpecConc: per thread, the local `task`

vars == <<tasks, req, resp, created, anyUpdate, pc, ldata, ltask>>

seqVars  == <<pc, ldata, ltask>>

Init ==
  /\ tasks = << >>
  /\ req = NoReq
  /\ resp = NoResp
  /\ created = << >>
  /\ anyUpdate = FALSE
  /\ pc = [p \in Procs |-> "idle"]
  /\ ldata = [p \in Procs |-> NoneData]
  /\ ltask = [p \in Procs |-> NoTask]

(* ------------------------------------------------------- helper functions *)
(* data['task'] succeeds: data is a dict that has the key *)
HasKey(data, k) == data.kind = "object" /\ k \in DOMAIN data.fields

(* variant: completed is taken from the body instead of being False *)
NewTaskCompletedFromBody(ts, data) ==
  [id |-> Len(ts) + 1, task |-> data.fields["task"],
   completed |-> IF "completed" \in DOMAIN data.fields
                   THEN data.fields["completed"] ELSE JFalse]

(* variant: the id is the 0-based count *)
NewTaskIdFromZero(ts, data) ==
  [id |-> Len(ts), task |-> data.fields["task"], completed |-> JFalse]

(* the dict literal of add_task *)
NewTask(ts, data) ==
  [id |-> Len(ts) + 1, task |-> data.fields["task"], completed |-> JFalse]

(* variant: data.get(key, False), the default is not the prior value *)
GetDefaultFalse(data, k, default) ==
  IF k \in DOMAIN data.fields THEN data.fields[k] ELSE JFalse

(* data.get(key, default) on a dict *)
Get(data, k, default) ==
  IF k \in DOMAIN data.fields THEN data.fields[k] ELSE default

(* variant: after an unmatched loop the last task visited is used *)
FirstMatchOrLast(ts, task_id) ==
  IF \E i \in 1 .. Len(ts) : ts[i].id = task_id
    THEN CHOOSE i \in 1 .. Len(ts) :
           /\ ts[i].id = task_id
           /\ \A j \in 1 .. (i - 1) : ts[j].id # task_id
    ELSE Len(ts)

(* position of the first task the for-loop matches, 0 when it runs out *)
FirstMatch(ts, task_id) ==
  IF \E i \in 1 .. Len(ts) : ts[i].id = task_id
    THEN CHOOSE i \in 1 .. Len(ts) :
           /\ ts[i].id = task_id
           /\ \A j \in 1 .. (i - 1) : ts[j].id # task_id
    ELSE 0

(* variant: the assignment is applied to every task of the list *)
SetCompletedAll(ts, i, v) ==
  [j \in 1 .. Len(ts) |-> [ts[j] EXCEPT !.completed = v]]

(* task['completed'] = v, in place *)
SetCompleted(ts, i, v) == [ts EXCEPT ![i].completed = v]

(* ------------------------------------------------- sequential handlers *)
(* GET /tasks *)
GetTasks ==
  /\ req' = Req("GET", 0, NoneData)
  /\ resp' = ListResp(tasks)
  /\ UNCHANGED <<tasks, created, anyUpdate, seqVars>>

(* variant: tasks.insert(0, task) instead of tasks.append(task) *)
AddTaskAtFront(data) ==
  /\ Len(tasks) < MaxTasks
  /\ req' = Req("POST", 0, data)
  /\ IF HasKey(data, "task")
       THEN LET task == [id |-> Len(tasks) + 1, task |-> data.fields["task"],
                         completed |-> JFalse] IN
            /\ tasks' = <<task>> \o tasks
            /\ created' = Append(created, task.task)
            /\ resp' = TaskResp(task, 201)
       ELSE /\ resp' = FaultResp
            /\ UNCHANGED <<tasks, created>>
  /\ UNCHANGED <<anyUpdate, pc, ldata, ltask>>

(* POST /tasks *)
AddTask(data) ==
  /\ Len(tasks) < MaxTasks
  /\ req' = Req("POST", 0, data)
  /\ IF HasKey(data, "task")
       THEN LET task == NewTask(tasks, data) IN
            /\ tasks' = Append(tasks, task)
            /\ created' = Append(created, task.task)
            /\ resp' = TaskResp(task, 201)
       ELSE \* TypeError (data is None) or KeyError: nothing was appended
            /\ resp' = FaultResp
            /\ UNCHANGED <<tasks, created>>
  /\ UNCHANGED <<anyUpdate, seqVars>>

(* PUT /tasks/<int:task_id> *)
UpdateTask(task_id, data) ==
  /\ req' = Req("PUT", task_id, data)
  /\ LET i == FirstMatch(tasks, task_id) IN
       IF i = 0
         THEN /\ resp' = ErrorResp("Task not found", 404)
              /\ UNCHANGED <<tasks, anyUpdate>>
         ELSE IF data.kind # "object"
           THEN \* AttributeError: None has no attribute 'get'
                /\ resp' = FaultResp
                /\ UNCHANGED <<tasks, anyUpdate>>
           ELSE /\ tasks' = SetCompleted(tasks, i, Get(data, "completed", tasks[i].completed))
                /\ resp' = TaskResp(tasks'[i], 200)
                /\ anyUpdate' = (anyUpdate \/ "completed" \in DOMAIN data.fields)
  /\ UNCHANGED <<created, seqVars>>

Next ==
  \/ GetTasks
  \/ \E data \in PostDatas : AddTask(data)
  \/ \E task_id \in TaskIds, data \in PutDatas : UpdateTask(task_id, data)

Spec == Init /\ [][Next]_vars

(* ---------------------------------------- add_task, statement by statement *)
(* Threads of the development server run add_task with no lock; a thread   *)
(* can be preempted between any two statements.                             *)
InFlight == { p \in Procs : pc[p] # "idle" }

(* data = request.get_json() *)
AddBegin(p, data) ==
  /\ pc[p] = "idle"
  /\ Len(tasks) + Cardinality(InFlight) < MaxTasks
  /\ ldata' = [ldata EXCEPT ![p] = data]
  /\ pc' = [pc EXCEPT ![p] = "build"]
  /\ req' = Req("POST", 0, data)
  /\ UNCHANGED <<tasks, resp, created, anyUpdate, ltask>>

(* task = {'id': len(tasks) + 1, 'task': data['task'], 'completed': False} *)
AddBuild(p) ==
  /\ pc[p] = "build"
  /\ IF HasKey(ldata[p], "task")
       THEN /\ ltask' = [ltask EXCEPT ![p] = NewTask(tasks, ldata[p])]
            /\ pc' = [pc EXCEPT ![p] = "append"]
            /\ UNCHANGED <<resp, ldata>>
       ELSE /\ resp' = FaultResp
            /\ pc' = [pc EXCEPT ![p] = "idle"]
            /\ ldata' = [ldata EXCEPT ![p] = NoneData]
            /\ UNCHANGED ltask
  /\ UNCHANGED <<tasks, req, created, anyUpdate>>

(* variant: the id is assigned again under a lock when appending *)
AddAppendLocked(p) ==
  /\ pc[p] = "append"
  /\ tasks' = Append(tasks, [ltask[p] EXCEPT !.id = Len(tasks) + 1])
  /\ created' = Append(created, ltask[p].task)
  /\ pc' = [pc EXCEPT ![p] = "return"]
  /\ UNCHANGED <<req, resp, anyUpdate, ldata, ltask>>

(* tasks.append(task) *)
AddAppend(p) ==
  /\ pc[p] = "append"
  /\ tasks' = Append(tasks, ltask[p])
  /\ created' = Append(created, ltask[p].task)
  /\ pc' = [pc EXCEPT ![p] = "return"]
  /\ UNCHANGED <<req, resp, anyUpdate, ldata, ltask>>

(* return jsonify(task), 201 *)
AddReturn(p) ==
  /\ pc[p] = "return"
  /\ resp' = TaskResp(ltask[p], 201)
  /\ pc' = [pc EXCEPT ![p] = "idle"]
  /\ ldata' = [ldata EXCEPT ![p] = NoneData]
  /\ ltask' = [ltask EXCEPT ![p] = NoTask]
  /\ UNCHANGED <<tasks, req, created, anyUpdate>>

NextConc ==
  \/ \E p \in Procs, data \in PostDatas : AddBegin(p, data)
  \/ \E p \in Procs : AddBuild(p)
  \/ \E p \in Procs : AddAppend(p)
  \/ \E p \in Procs : AddReturn(p)

SpecConc == Init /\ [][NextConc]_vars

(* ================================================================ claims *)
Positions(ts) == 1 .. Len(ts)

Matches(ts, task_id) == { i \in Positions(ts) : ts[i].id = task_id }

Supplied(data, k) == data.kind = "object" /\ k \in DOMAIN data.fields

(* C1: a create whose body contains `task` appends exactly one task at the *)
(* end, with id = previous count + 1, the supplied task value and          *)
(* completed false, and returns that task with status 201.                 *)
C1_CreateAppendsOne ==
  [][ (req'.op = "POST" /\ Supplied(req'.data, "task")) =>
        /\ Len(tasks') = Len(tasks) + 1
        /\ SubSeq(tasks', 1, Len(tasks)) = tasks
        /\ tasks'[Len(tasks')].id = Len(tasks) + 1
        /\ tasks'[Len(tasks')].task = req'.data.fields["task"]
        /\ tasks'[Len(tasks')].completed = JFalse
        /\ resp'.status = 201
        /\ resp'.kind = "task"
        /\ resp'.task = tasks'[Len(tasks')] ]_vars

C1_Witness ==
  /\ req.op = "POST"
  /\ Supplied(req.data, "completed")
  /\ resp.status = 201
  /\ Len(tasks) = 3
  /\ resp.task = tasks[3]

(* C2: a list returns status 200 and exactly the created tasks, in the     *)
(* order of their creation; while no update has assigned a completed       *)
(* field every listed task has completed = false; for no creates the       *)
(* result is the empty array.                                              *)
C2_ListInCreationOrder ==
  req.op = "GET" =>
    /\ resp.status = 200
    /\ resp.kind = "list"
    /\ Len(resp.list) = Len(created)
    /\ \A i \in Positions(created) : resp.list[i].task = created[i]
    /\ (~anyUpdate => \A i \in Positions(resp.list) : resp.list[i].completed = JFalse)

C2_Witness ==
  /\ req.op = "GET"
  /\ ~anyUpdate
  /\ Len(resp.list) = 2
  /\ resp.list[1].task = JStr("b")
  /\ resp.list[2].task = JStr("a")
  /\ resp.list[1].id = 1

(* C3: an update of an existing id with {"completed": true} sets that      *)
(* task's completed to true, returns it with status 200, keeps its id and  *)
(* task, and leaves every other task and every position unchanged.         *)
C3_UpdateTrueOnlyThatTask ==
  [][ ( /\ req'.op = "PUT"
        /\ Supplied(req'.data, "completed")
        /\ Get(req'.data, "completed", JNull) = JTrue
        /\ Matches(tasks, req'.id) # {} ) =>
        /\ Len(tasks') = Len(tasks)
        /\ \A i \in Matches(tasks, req'.id) :
              /\ tasks'[i].completed = JTrue
              /\ tasks'[i].id = tasks[i].id
              /\ tasks'[i].task = tasks[i].task
              /\ resp'.task = tasks'[i]
        /\ \A j \in Positions(tasks) \ Matches(tasks, req'.id) : tasks'[j] = tasks[j]
        /\ resp'.status = 200
        /\ resp'.kind = "task" ]_vars

C3_Witness ==
  /\ req.op = "PUT"
  /\ Supplied(req.data, "completed")
  /\ req.data.fields["completed"] = JTrue
  /\ resp.status = 200
  /\ resp.task.completed = JTrue
  /\ Len(tasks) = 3
  /\ req.id = 2
  /\ tasks[1].completed = JFalse
  /\ tasks[3].completed = JFalse

C5_UpdateNotFound ==
  [][ (req'.op = "PUT" /\ Matches(tasks, req'.id) = {}) =>
        /\ resp'.status = 404
        /\ resp'.kind = "error"
        /\ resp'.error = "Task not found"
        /\ tasks' = tasks ]_vars

C5_Witness ==
  /\ req.op = "PUT"
  /\ resp.status = 404
  /\ resp.kind = "error"
  /\ Len(tasks) = 2
  /\ req.id = 3
  /\ Supplied(req.data, "completed")

(* C6: a create whose body is absent or lacks `task` is answered with a    *)
(* client-error (4xx) InvalidRequest response, not an unhandled fault, and *)
(* appends nothing.                                                        *)
C6_CreateInvalidIs4xx ==
  [][ (req'.op = "POST" /\ ~Supplied(req'.data, "task")) =>
        /\ resp'.status \in 400 .. 499
        /\ resp'.kind = "error"
        /\ tasks' = tasks ]_vars

(* C7: with two interleaved create handlers, whenever both have built      *)
(* their task from the same count and both have appended, the list holds   *)
(* two tasks with the same id (so id uniqueness is not an invariant).      *)
C7_SameCountGivesDuplicateIds ==
  \A p \in Procs : \A q \in Procs \ {p} :
    ( /\ pc[p] = "return"
      /\ pc[q] = "return"
      /\ ltask[p].id = ltask[q].id ) =>
    \E i \in Positions(tasks) : \E j \in Positions(tasks) \ {i} :
      /\ tasks[i].id = tasks[j].id
      /\ tasks[i].id = ltask[p].id

C7_Witness ==
  \E i \in Positions(tasks) : \E j \in Positions(tasks) \ {i} :
    tasks[i].id = tasks[j].id

(* C8: the sequence is append-only: every step keeps the old sequence as a *)
(* prefix up to completed flags, never changes a stored id or task, grows  *)
(* the length only by a create (by one), and a list changes nothing.       *)
C8_AppendOnly ==
  [][ /\ Len(tasks') >= Len(tasks)
      /\ \A i \in Positions(tasks) :
            /\ tasks'[i].id = tasks[i].id
            /\ tasks'[i].task = tasks[i].task
      /\ (Len(tasks') > Len(tasks) =>
            req'.op = "POST" /\ Len(tasks') = Len(tasks) + 1)
      /\ (req'.op = "GET" => tasks' = tasks) ]_vars

C8_Witness ==
  /\ req.op = "PUT"
  /\ resp.status = 200
  /\ Len(tasks) = 3
  /\ tasks[1].completed = JTrue
  /\ tasks[3].completed = JStr("yes")

(* C9: in every reachable state the completed field of every stored task   *)
(* is a boolean.                                                           *)
C9_CompletedIsBoolean ==
  \A i \in Positions(tasks) : tasks[i].completed.kind = "bool"

====
